---- MODULE Spec2Model ----
(***************************************************************************)
(* LCEMGP (botorch/models/contextual_multioutput.py): the multi-task GP    *)
(* with the latent context embedding multi-output kernel.                  *)
(*                                                                         *)
(* Representation.                                                         *)
(*  - A tensor is a record [shape, at]: shape is the sequence of its       *)
(*    dimension sizes and at maps every 0-based coordinate tuple to the    *)
(*    entry.  Python lists are sequences.  An Optional argument is <<>>    *)
(*    (None) or <<v>>.                                                     *)
(*  - Real numbers (embedding weights, continuous features) are integers   *)
(*    in units of 1/Unit, so max_norm = 1.0 is Unit.  Length-scales are in  *)
(*    units of 1/2, so the initial value 1.0 is 2.                         *)
(*  - An RBF covariance value exp(-q/c) (c a fixed positive constant) is   *)
(*    represented by its integer exponent q: equal values have equal q.    *)
(*  - A raised exception is the name of its class in ret.exc.              *)
(***************************************************************************)
EXTENDS Integers, Sequences, FiniteSets, TLC

VARIABLES status, self, embs_dim_list, call, ret, locals

vars == <<status, self, embs_dim_list, call, ret, locals>>

-----------------------------------------------------------------------------
(* Bounds of the model *)

\* task ids are 0..MaxTask
MaxTask == 2
\* the optimizer moves the parameters to one of the points 0..MaxPoint
MaxPoint == 1
\* fixed-point resolution of the reals: 1.0 is Unit
Unit == 2

-----------------------------------------------------------------------------
(* Sequences and integers *)

None == <<>>

Some(v) == <<v>>

Abs(v) == IF v < 0 THEN -v ELSE v

Sign(v) == IF v < 0 THEN -1 ELSE IF v > 0 THEN 1 ELSE 0

Front(s) == SubSeq(s, 1, Len(s) - 1)

Last(s) == s[Len(s)]

RECURSIVE SumSeq(_)
SumSeq(s) == IF s = <<>> THEN 0 ELSE s[1] + SumSeq(Tail(s))

SetMin(S) == CHOOSE m \in S : \A x \in S : m <= x

RECURSIVE SortSet(_)
SortSet(S) == IF S = {} THEN <<>> ELSE <<SetMin(S)>> \o SortSet(S \ {SetMin(S)})

Range(s) == {s[i] : i \in 1..Len(s)}

\* the least s with s*s >= n: the norm sqrt(n), rounded up
CeilSqrt(n) == CHOOSE s \in 0..n : s * s >= n /\ (s = 0 \/ (s - 1) * (s - 1) < n)

-----------------------------------------------------------------------------
(* Tensors *)

RECURSIVE Indices(_)
Indices(shape) ==
    IF shape = <<>> THEN {<<>>}
    ELSE {<<h>> \o t : h \in 0..(shape[1] - 1), t \in Indices(Tail(shape))}

Tensor(shape, f(_)) == [shape |-> shape, at |-> [t \in Indices(shape) |-> f(t)]]

NoTensor == [shape |-> <<0>>, at |-> <<>>]

\* a 1-D tensor from a list
FromList(s) == Tensor(<<Len(s)>>, LAMBDA t : s[t[1] + 1])

\* x[:, i] of a 2-D tensor, as a list
Column(x, i) == [r \in 1..x.shape[1] |-> x.at[<<r - 1, i>>]]

\* x.unsqueeze(-1)
Unsqueeze(x) == Tensor(x.shape \o <<1>>, LAMBDA t : x.at[Front(t)])

\* x.squeeze(-1): the last dimension is removed when its size is 1
Squeeze(x) ==
    IF x.shape # <<>> /\ Last(x.shape) = 1
    THEN Tensor(Front(x.shape), LAMBDA t : x.at[t \o <<0>>])
    ELSE x

\* x.transpose(-1, -2)
SwapLast(t) == SubSeq(t, 1, Len(t) - 2) \o <<t[Len(t)], t[Len(t) - 1]>>

Transpose(x) == Tensor(SwapLast(x.shape), LAMBDA t : x.at[SwapLast(t)])

\* torch.unique of a list: the distinct values, ascending
Unique(s) == SortSet(Range(s))

\* list.sort(): ascending, repeats kept
RECURSIVE ListSort(_)
ListSort(s) ==
    IF s = <<>> THEN <<>>
    ELSE LET m == SetMin(Range(s))
             i == CHOOSE j \in 1..Len(s) : s[j] = m
         IN <<m>> \o ListSort(SubSeq(s, 1, i - 1) \o SubSeq(s, i + 1, Len(s)))

\* a faulty variant: the blocks concatenated last to first
RECURSIVE CatColsReversed(_)
CatColsReversed(blocks) ==
    IF Len(blocks) = 1 THEN blocks[1]
    ELSE LET a == CatColsReversed(Tail(blocks))
             b == blocks[1]
             wa == a.shape[2]
         IN Tensor(<<a.shape[1], wa + b.shape[2]>>,
                   LAMBDA t : IF t[2] < wa THEN a.at[t] ELSE b.at[<<t[1], t[2] - wa>>])

\* torch.cat(blocks, dim=1) of 2-D tensors with the same number of rows
RECURSIVE CatCols(_)
CatCols(blocks) ==
    IF Len(blocks) = 1 THEN blocks[1]
    ELSE LET a == blocks[1]
             b == CatCols(Tail(blocks))
             wa == a.shape[2]
         IN Tensor(<<a.shape[1], wa + b.shape[2]>>,
                   LAMBDA t : IF t[2] < wa THEN a.at[t] ELSE b.at[<<t[1], t[2] - wa>>])

-----------------------------------------------------------------------------
(* The model object *)

NoModel ==
    [all_tasks |-> <<>>, context_cat_feature |-> NoTensor,
     context_emb_feature |-> None, emb_dims |-> <<>>, emb_layers |-> <<>>,
     ard_num_dims |-> 0, lengthscale |-> <<>>, input_transform |-> None,
     training |-> TRUE]

NoCall == [op |-> "", arg |-> NoTensor]

Returned(v) == [exc |-> "", out |-> v]

Raised(e) == [exc |-> e, out |-> NoTensor]

NoLocals ==
    [covar_matrix |-> NoTensor, expanded_idx |-> NoTensor,
     transformed |-> FALSE, x |-> NoTensor, renormed |-> FALSE]

\* the number of contexts: the rows of the categorical feature matrix
NumContexts(m) == m.context_cat_feature.shape[1]

\* the number of categorical columns k
NumCat(m) == m.context_cat_feature.shape[2]

-----------------------------------------------------------------------------
(* Parameters: torch.nn.Embedding draws its weights at random and the      *)
(* optimizer moves them; both are a choice among the parameter points.     *)

WeightAt(p, i, r, d) == ((5 * p + 3 * i + 4 * r + 2 * d) % (2 * Unit + 3)) - (Unit + 1)

EmbeddingWeights(p, i, num, dim) ==
    Tensor(<<num, dim>>, LAMBDA t : WeightAt(p, i, t[1], t[2]))

LengthscaleAt(p, d) == 1 + ((p + d) % 3)

-----------------------------------------------------------------------------
(* LCEMGP.__init__ *)

\* lines 89-95
InitAllTasksLocal(a) ==
    IF a.all_tasks = None THEN Unique(a.train_tasks) ELSE a.all_tasks[1]

\* lines 91-95: the list is sorted in place; Tensor.sort() returns the
\* sorted tensor, which line 95 drops
InitAllTasks(a) ==
    IF a.all_tasks = None THEN ListSort(InitAllTasksLocal(a))
    ELSE InitAllTasksLocal(a)

\* lines 97-99
InitCatFeature(a) ==
    IF a.context_cat_feature = None
    THEN Unsqueeze(FromList(InitAllTasksLocal(a)))
    ELSE a.context_cat_feature[1]

\* lines 103-105
InitEmbsDimList(a) ==
    IF a.embs_dim_list = None
    THEN [i \in 1..InitCatFeature(a).shape[2] |-> 1]
    ELSE a.embs_dim_list[1]

\* line 106
InitNEmbs(a) == SumSeq(InitEmbsDimList(a))

\* lines 107-110
InitEmbDims(a) ==
    [i \in 1..InitCatFeature(a).shape[2] |->
        <<Cardinality(Range(Column(InitCatFeature(a), i - 1))), InitEmbsDimList(a)[i]>>]

\* lines 107-110: embs_dim_list[i] for i in range(k) raises on a short list
InitRaises(a) == Len(InitEmbsDimList(a)) < InitCatFeature(a).shape[2]

\* lines 88-124
Constructed(a) ==
    [all_tasks |-> InitAllTasks(a),
     context_cat_feature |-> InitCatFeature(a),
     context_emb_feature |-> a.context_emb_feature,
     emb_dims |-> InitEmbDims(a),
     emb_layers |-> [i \in 1..Len(InitEmbDims(a)) |->
         EmbeddingWeights(a.seed, i, InitEmbDims(a)[i][1], InitEmbDims(a)[i][2])],
     ard_num_dims |-> InitNEmbs(a),
     lengthscale |-> [d \in 1..InitNEmbs(a) |-> 2],
     input_transform |-> a.input_transform,
     training |-> TRUE]

-----------------------------------------------------------------------------
(* torch.nn.Embedding(max_norm=1.0): a lookup first rescales, in the       *)
(* table, every looked-up row whose norm exceeds max_norm.                 *)

RowNorm2(W, r) == SumSeq([d \in 1..W.shape[2] |-> W.at[<<r, d - 1>>] * W.at[<<r, d - 1>>]])

\* a faulty variant: every non-zero looked-up row is rescaled to the limit
ExceedsZeroNorm(W, r) == RowNorm2(W, r) > 0

ExceedsMaxNorm(W, r) == RowNorm2(W, r) > Unit * Unit

RenormValue(W, r, d) ==
    Sign(W.at[<<r, d>>]) * ((Abs(W.at[<<r, d>>]) * Unit) \div CeilSqrt(RowNorm2(W, r)))

Renorm(W, rows) ==
    Tensor(W.shape, LAMBDA t :
        IF t[1] \in rows /\ ExceedsMaxNorm(W, t[1]) THEN RenormValue(W, t[1], t[2])
        ELSE W.at[t])

\* the category values of column i (1-based) that the lookup reads
Looked(m, i) == Range(Column(m.context_cat_feature, i - 1))

ValidRows(W) == 0..(W.shape[1] - 1)

LayerOk(m, i) == Looked(m, i) \subseteq ValidRows(m.emb_layers[i])

\* the first table whose lookup fails, 0 when none does
FirstBad(m) ==
    IF \A i \in 1..Len(m.emb_layers) : LayerOk(m, i) THEN 0
    ELSE SetMin({i \in 1..Len(m.emb_layers) : ~LayerOk(m, i)})

\* the tables after a call of _task_embeddings: the renorm visits the
\* looked-up indices in ascending order and stops at the first invalid one
EmbLayersAfter(m) ==
    LET bad == FirstBad(m)
    IN [i \in 1..Len(m.emb_layers) |->
        IF bad = 0 \/ i <= bad
        THEN Renorm(m.emb_layers[i], Looked(m, i) \cap ValidRows(m.emb_layers[i]))
        ELSE m.emb_layers[i]]

\* emb_layer(context_cat_feature[:, i]) on the rescaled table
EmbBlock(m, W, i) ==
    Tensor(<<NumContexts(m), W.shape[2]>>,
           LAMBDA t : W.at[<<m.context_cat_feature.at[<<t[1], i - 1>>], t[2]>>])

\* LCEMGP._task_embeddings, lines 137-155
TaskEmbeddingsOf(m) ==
    IF FirstBad(m) # 0 THEN Raised("IndexError")
    ELSE LET layers == EmbLayersAfter(m)
             blocks == [i \in 1..Len(m.emb_layers) |-> EmbBlock(m, layers[i], i)]
         IN Returned(IF m.context_emb_feature = None THEN CatCols(blocks)
                     ELSE CatCols(blocks \o m.context_emb_feature))

-----------------------------------------------------------------------------
(* RBFKernel with ard_num_dims length-scales, and _eval_context_covar *)

\* -log of the RBF value, up to a constant factor
RBFExponent(X, ls, i, j) ==
    SumSeq([d \in 1..X.shape[2] |->
        (X.at[<<i, d - 1>>] - X.at[<<j, d - 1>>]) * (X.at[<<i, d - 1>>] - X.at[<<j, d - 1>>])
            * (36 \div (ls[d] * ls[d]))])

\* task_covar_module(all_embs): the kernel (with gpytorch's default debug
\* checks) refuses an input whose width is not ard_num_dims
RBFKernelOf(m, X) ==
    IF X.shape[2] # m.ard_num_dims THEN Raised("RuntimeError")
    ELSE Returned(Tensor(<<X.shape[1], X.shape[1]>>,
                         LAMBDA t : RBFExponent(X, m.lengthscale, t[1], t[2])))

\* LCEMGP._eval_context_covar, lines 126-135
EvalContextCovarOf(m) ==
    LET all_embs == TaskEmbeddingsOf(m)
    IN IF all_embs.exc # "" THEN all_embs ELSE RBFKernelOf(m, all_embs.out)

-----------------------------------------------------------------------------
(* LCEMGP.task_covar_matrix *)

\* covar_matrix[base_idx] accepts the indices -T..T-1, a negative one
\* counting from the end
IndexInBounds(C, base) ==
    \A t \in DOMAIN base.at : base.at[t] >= -C.shape[1] /\ base.at[t] < C.shape[1]

WrapIndex(C, v) == IF v < 0 THEN v + C.shape[1] ELSE v

\* covar_matrix[base_idx]: one row of C for every entry of base_idx
IndexRows(C, base) ==
    Tensor(base.shape \o <<C.shape[2]>>,
           LAMBDA t : C.at[<<WrapIndex(C, base.at[Front(t)]), Last(t)>>])

\* task_idcs.expand(-1, ..., -1, n): the size-1 last dimension repeated n times
ExpandLast(x, n) ==
    Tensor(Front(x.shape) \o <<n>>, LAMBDA t : x.at[Front(t) \o <<0>>])

\* a faulty variant: the indices repeated along the second-to-last axis instead
ExpandedIdxAcross(task_idcs) ==
    Tensor(Front(task_idcs.shape) \o <<task_idcs.shape[Len(task_idcs.shape) - 1]>>,
           LAMBDA t : task_idcs.at[SubSeq(t, 1, Len(t) - 2) \o <<t[Len(t)], 0>>])

\* lines 180-182
ExpandedIdx(task_idcs) ==
    ExpandLast(task_idcs, task_idcs.shape[Len(task_idcs.shape) - 1])

\* gather(dim=-2) accepts an index of the input's rank, no larger than the
\* input off the gathered dimension, with entries 0..size-1
GatherShapeOk(input, index) ==
    /\ Len(index.shape) = Len(input.shape)
    /\ \A d \in 1..Len(input.shape) :
          d # Len(input.shape) - 1 => index.shape[d] <= input.shape[d]

GatherInBounds(input, index) ==
    \A t \in DOMAIN index.at :
        index.at[t] >= 0 /\ index.at[t] < input.shape[Len(input.shape) - 1]

\* a faulty variant: the gathered entry is taken from the column of its row number
GatherCoordDiagonal(t, v) == SubSeq(t, 1, Len(t) - 2) \o <<v, t[Len(t) - 1]>>

\* input.gather(index=index, dim=-2)
GatherCoord(t, v) == SubSeq(t, 1, Len(t) - 2) \o <<v, t[Len(t)]>>

Gather(input, index) ==
    Tensor(index.shape, LAMBDA t : input.at[GatherCoord(t, index.at[t])])

\* a faulty variant: both selections index as C[idx][:, idx] does, a negative index
\* counting from the end
SelectAndGatherWrapping(C, task_idcs) ==
    LET base_idx == Squeeze(task_idcs)
        n == task_idcs.shape[Len(task_idcs.shape) - 1]
    IN IF ~IndexInBounds(C, base_idx) THEN Raised("IndexError")
       ELSE Returned(Tensor(base_idx.shape \o <<n>>, LAMBDA t :
                C.at[<<WrapIndex(C, base_idx.at[Front(t)]),
                       WrapIndex(C, base_idx.at[SubSeq(t, 1, Len(t) - 2) \o <<t[Len(t)]>>])>>]))

\* lines 179-185, given the dense covariance C
SelectAndGather(C, task_idcs) ==
    LET base_idx == Squeeze(task_idcs)
        expanded_idx == ExpandedIdx(task_idcs)
    IN IF ~IndexInBounds(C, base_idx) THEN Raised("IndexError")
       ELSE LET picked == Transpose(IndexRows(C, base_idx))
            IN IF ~GatherShapeOk(picked, expanded_idx) \/ ~GatherInBounds(picked, expanded_idx)
               THEN Raised("RuntimeError")
               ELSE Returned(Gather(picked, expanded_idx))

\* LCEMGP.task_covar_matrix, lines 157-185
\* lines 168-185, given the outcome of _eval_context_covar().to_dense()
TaskCovarFrom(covar_matrix, task_idcs) ==
    IF covar_matrix.exc # "" THEN covar_matrix
    ELSE SelectAndGather(covar_matrix.out, task_idcs)

\* LCEMGP.task_covar_matrix, lines 157-185
TaskCovarMatrixOf(m, task_idcs) == TaskCovarFrom(EvalContextCovarOf(m), task_idcs)

\* what a call observes on its way: whether a lookup rescaled a table row
EmbeddingLocals(m) == [NoLocals EXCEPT !.renormed = (EmbLayersAfter(m) # m.emb_layers)]

\* the locals of a call of task_covar_matrix: line 168 and lines 180-182
TaskCovarLocals(m, covar_matrix, task_idcs) ==
    [EmbeddingLocals(m) EXCEPT
        !.covar_matrix = covar_matrix.out,
        !.expanded_idx = IF covar_matrix.exc # "" THEN NoTensor
                         ELSE ExpandedIdx(task_idcs)]

-----------------------------------------------------------------------------
(* LCEMGP.forward.  x has the shape (..., n, 2): column 0 is the non-task   *)
(* feature, column 1 (task_feature) the task index.                        *)

\* Model.transform_inputs with the model's input transform: the non-task
\* column is shifted, the task column kept
TransformInputs(x) ==
    Tensor(x.shape, LAMBDA t : IF Last(t) = 0 THEN x.at[t] + 1 ELSE x.at[t])

\* MultiTaskGP._split_inputs: x[..., :1] and x[..., 1:]
XBasic(x) == Tensor(Front(x.shape) \o <<1>>, LAMBDA t : x.at[Front(t) \o <<0>>])

TaskIdcs(x) == Tensor(Front(x.shape) \o <<1>>, LAMBDA t : x.at[Front(t) \o <<1>>])

\* covar_module(x_basic): the base kernel's exponent for every pair of rows
CovarX(xb) ==
    LET n == xb.shape[Len(xb.shape) - 1]
        b == SubSeq(xb.shape, 1, Len(xb.shape) - 2)
    IN Tensor(b \o <<n, n>>, LAMBDA t :
           LET lead == SubSeq(t, 1, Len(t) - 2)
               d == xb.at[lead \o <<t[Len(t) - 1], 0>>] - xb.at[lead \o <<t[Len(t)], 0>>]
           IN d * d)

\* covar_x.mul(covar_i): the product of a base and a task covariance value
\* is the pair of their exponents
Mul(a, b) == Tensor(a.shape, LAMBDA t : <<a.at[t], b.at[t]>>)

\* line 188-189
\* a faulty variant: the transform is applied in both modes
ForwardTransformsAlways(m) == TRUE

\* line 188
ForwardTransforms(m) == m.training

ForwardInput(m, x) == IF ForwardTransforms(m) THEN TransformInputs(x) ELSE x

\* lines 190-197, given the outcome of _eval_context_covar().to_dense():
\* the covariance of the returned MultivariateNormal
ForwardFrom(covar_matrix, x) ==
    LET covar_i == TaskCovarFrom(covar_matrix, TaskIdcs(x))
    IN IF covar_i.exc # "" THEN covar_i
       ELSE Returned(Mul(CovarX(XBasic(x)), covar_i.out))

\* LCEMGP.forward, lines 187-197
ForwardOf(m, x) == ForwardFrom(EvalContextCovarOf(m), ForwardInput(m, x))

ForwardLocals(m, covar_matrix, x) ==
    [TaskCovarLocals(m, covar_matrix, TaskIdcs(ForwardInput(m, x)))
        EXCEPT !.transformed = ForwardTransforms(m), !.x = ForwardInput(m, x)]

-----------------------------------------------------------------------------
(* Inputs *)

TaskIds == 0..MaxTask

Reverse(s) == [i \in 1..Len(s) |-> s[Len(s) + 1 - i]]

\* the task column of train_X: any non-empty set of tasks, listed descending
TrainColumns == {Reverse(SortSet(S)) : S \in SUBSET TaskIds \ {{}}}

\* explicit all_tasks: any order, repeats allowed
AllTasksLists == [1..1 -> TaskIds] \cup [1..2 -> TaskIds]

\* a categorical column with the values 0..T-1, and one with two categories
CatFeatureLists(T) ==
    {<<[r \in 1..T |-> (r - 1) % 2]>>,
     <<[r \in 1..T |-> r - 1], [r \in 1..T |-> (r - 1) % 2]>>}

FromColumns(cols) ==
    Tensor(<<Len(cols[1]), Len(cols)>>, LAMBDA t : cols[t[2] + 1][t[1] + 1])

EmbsDimLists == {<<2>>, <<2, 1>>, <<1, 1, 2>>}

\* n_contexts x 1 continuous features
EmbFeature(T) == Tensor(<<T, 1>>, LAMBDA t : t[1] + 1)

\* the arguments MultiTaskGP.__init__ accepts: an explicit all_tasks
\* contains every task of the training data
CtorArgs ==
    {a \in [train_tasks : TrainColumns,
            all_tasks : {None} \cup {Some(s) : s \in AllTasksLists},
            cat : {0, 1, 2}, emb : BOOLEAN,
            embs_dim_list : {None} \cup {Some(s) : s \in EmbsDimLists},
            seed : 0..MaxPoint] :
        a.all_tasks # None => Range(a.train_tasks) \subseteq Range(a.all_tasks[1])}

\* the constructor's arguments, with the context features sized to the
\* number of contexts
ArgsOf(a) ==
    LET T == IF a.all_tasks = None THEN Cardinality(Range(a.train_tasks))
             ELSE Len(a.all_tasks[1])
        cats == CHOOSE f \in [1..2 -> CatFeatureLists(T)] :
                    Len(f[1]) = 1 /\ Len(f[2]) = 2
    IN [train_tasks |-> a.train_tasks, all_tasks |-> a.all_tasks,
        context_cat_feature |-> IF a.cat = 0 THEN None ELSE Some(FromColumns(cats[a.cat])),
        context_emb_feature |-> IF a.emb THEN Some(EmbFeature(T)) ELSE None,
        embs_dim_list |-> a.embs_dim_list,
        input_transform |-> Some("shift"),
        seed |-> a.seed]

\* every tensor of one of the shapes with entries among vals
TensorsOf(shapes, vals) ==
    UNION {{[shape |-> sh, at |-> f] : f \in [Indices(sh) -> vals]} : sh \in shapes}

-----------------------------------------------------------------------------
(* Actions *)

Init ==
    /\ status = "new"
    /\ self = NoModel
    /\ embs_dim_list = <<>>
    /\ call = NoCall
    /\ ret = Returned(NoTensor)
    /\ locals = NoLocals

\* LCEMGP(...)
Construct(a) ==
    /\ call' = [op |-> "__init__", arg |-> NoTensor]
    /\ locals' = NoLocals
    /\ IF InitRaises(a)
       THEN /\ status' = "failed"
            /\ ret' = Raised("IndexError")
            /\ UNCHANGED <<self, embs_dim_list>>
       ELSE /\ status' = "ready"
            /\ ret' = Returned(NoTensor)
            /\ self' = Constructed(a)
            /\ embs_dim_list' = InitEmbsDimList(a)

\* model._task_embeddings()
TaskEmbeddings ==
    /\ status = "ready"
    /\ call' = [op |-> "_task_embeddings", arg |-> NoTensor]
    /\ ret' = TaskEmbeddingsOf(self)
    /\ locals' = EmbeddingLocals(self)
    /\ self' = [self EXCEPT !.emb_layers = EmbLayersAfter(self)]
    /\ UNCHANGED <<status, embs_dim_list>>

\* model._eval_context_covar().to_dense()
EvalContextCovar ==
    /\ status = "ready"
    /\ call' = [op |-> "_eval_context_covar", arg |-> NoTensor]
    /\ ret' = EvalContextCovarOf(self)
    /\ locals' = EmbeddingLocals(self)
    /\ self' = [self EXCEPT !.emb_layers = EmbLayersAfter(self)]
    /\ UNCHANGED <<status, embs_dim_list>>

\* model.task_covar_matrix(task_idcs)
TaskCovarMatrix(task_idcs) ==
    /\ status = "ready"
    /\ call' = [op |-> "task_covar_matrix", arg |-> task_idcs]
    /\ LET covar_matrix == EvalContextCovarOf(self)
       IN /\ ret' = TaskCovarFrom(covar_matrix, task_idcs)
          /\ locals' = TaskCovarLocals(self, covar_matrix, task_idcs)
    /\ self' = [self EXCEPT !.emb_layers = EmbLayersAfter(self)]
    /\ UNCHANGED <<status, embs_dim_list>>

\* model.forward(x)
Forward(x) ==
    /\ status = "ready"
    /\ call' = [op |-> "forward", arg |-> x]
    /\ LET covar_matrix == EvalContextCovarOf(self)
       IN /\ ret' = ForwardFrom(covar_matrix, ForwardInput(self, x))
          /\ locals' = ForwardLocals(self, covar_matrix, x)
    /\ self' = [self EXCEPT !.emb_layers = EmbLayersAfter(self)]
    /\ UNCHANGED <<status, embs_dim_list>>

\* model.train()
Train ==
    /\ status = "ready"
    /\ ~self.training
    /\ self' = [self EXCEPT !.training = TRUE]
    /\ call' = [op |-> "train", arg |-> NoTensor]
    /\ ret' = Returned(NoTensor)
    /\ locals' = NoLocals
    /\ UNCHANGED <<status, embs_dim_list>>

\* model.eval()
Eval ==
    /\ status = "ready"
    /\ self.training
    /\ self' = [self EXCEPT !.training = FALSE]
    /\ call' = [op |-> "eval", arg |-> NoTensor]
    /\ ret' = Returned(NoTensor)
    /\ locals' = NoLocals
    /\ UNCHANGED <<status, embs_dim_list>>

\* the parameters after a step of the external optimizer
OptimizerParams(m, p) ==
    [m EXCEPT !.emb_layers = [i \in 1..Len(m.emb_layers) |->
                  EmbeddingWeights(p, i, m.emb_dims[i][1], m.emb_dims[i][2])],
              !.lengthscale = [d \in 1..m.ard_num_dims |-> LengthscaleAt(p, d)]]

\* optimizer.step(), between two calls of the model
OptimizerStep(p) ==
    /\ status = "ready"
    /\ self' = OptimizerParams(self, p)
    /\ call' = [op |-> "optimizer.step", arg |-> NoTensor]
    /\ ret' = Returned(NoTensor)
    /\ locals' = NoLocals
    /\ UNCHANGED <<status, embs_dim_list>>

\* the task index tensors and input batches the calls are made with
SmallIdx == TensorsOf({<<2, 1>>}, {0, NumContexts(self) - 1})

SmallX == {x \in TensorsOf({<<2, 2>>}, {0, 1}) : x.at[<<0, 0>>] = 0 /\ x.at[<<0, 1>>] = 0}

\* the constructions whose models are then called: the tasks of the
\* training data contiguous or with a gap, one or two tables
CallArgs ==
    {a \in CtorArgs :
        /\ a.all_tasks = None
        /\ Range(a.train_tasks) \in {TaskIds, {0, MaxTask}}
        /\ a.cat \in {0, 2}
        /\ a.embs_dim_list \in {None, Some(<<2, 1>>)}}

Next ==
    \/ status = "new" /\ \E a \in CallArgs : Construct(ArgsOf(a))
    \/ TaskEmbeddings
    \/ EvalContextCovar
    \/ \E task_idcs \in SmallIdx : TaskCovarMatrix(task_idcs)
    \/ \E x \in SmallX : Forward(x)
    \/ Train
    \/ Eval
    \/ \E p \in 0..MaxPoint : OptimizerStep(p)

Spec == Init /\ [][Next]_vars

-----------------------------------------------------------------------------
(* The constructor on its own: every argument combination, each model      *)
(* then asked for its embeddings and its context covariance.               *)

NextCtor ==
    \/ status = "new" /\ \E a \in CtorArgs : Construct(ArgsOf(a))
    \/ TaskEmbeddings
    \/ EvalContextCovar
    \/ \E p \in 0..MaxPoint : OptimizerStep(p)

SpecCtor == Init /\ [][NextCtor]_vars

-----------------------------------------------------------------------------
(* task_covar_matrix on its own: a model with the default context          *)
(* features, fresh or after an optimizer step, and a caller holding a task *)
(* index tensor of any batch shape, which it then passes.                  *)

IdxArgs ==
    {a \in CtorArgs :
        /\ a.all_tasks = None /\ a.cat = 0 /\ ~a.emb
        /\ a.embs_dim_list \in {None, Some(<<2>>)}
        /\ \E T \in {2, MaxTask + 1} : Range(a.train_tasks) = 0..(T - 1)}

WideIdx(m) ==
    TensorsOf({<<1, 1>>, <<2, 1>>, <<3, 1>>, <<1, 2, 1>>, <<2, 2, 1>>, <<2, 1, 2, 1>>},
              (-1)..NumContexts(m))

InitIdx ==
    /\ status = "ready"
    /\ \E a \in IdxArgs :
          /\ self \in {Constructed(ArgsOf(a))}
                \cup {OptimizerParams(Constructed(ArgsOf(a)), p) : p \in 0..MaxPoint}
          /\ embs_dim_list = InitEmbsDimList(ArgsOf(a))
    /\ \E task_idcs \in WideIdx(self) : call = [op |-> "input", arg |-> task_idcs]
    /\ ret = Returned(NoTensor)
    /\ locals = NoLocals

NextIdx == call.op = "input" /\ TaskCovarMatrix(call.arg)

SpecIdx == InitIdx /\ [][NextIdx]_vars

-----------------------------------------------------------------------------
(* Properties *)

\* the leading (batch) dimensions of a task index tensor of shape (..., n, 1)
BatchShape(task_idcs) == SubSeq(task_idcs.shape, 1, Len(task_idcs.shape) - 2)

NumPoints(task_idcs) == task_idcs.shape[Len(task_idcs.shape) - 1]

\* idx[b, i]
IdxAt(task_idcs, b, i) == task_idcs.at[b \o <<i, 0>>]

AllInRange(m, task_idcs) ==
    \A t \in DOMAIN task_idcs.at : task_idcs.at[t] \in 0..(NumContexts(m) - 1)

IsSymmetric(C) == \A t \in DOMAIN C.at : C.at[t] = C.at[<<t[2], t[1]>>]

Lead(t) == SubSeq(t, 1, Len(t) - 2)

\* C1: for a task index tensor of shape (..., n, 1) with all entries in
\* 0..num_contexts-1 and a symmetric covariance C, task_covar_matrix returns
\* a tensor of shape (..., n, n) whose entry [b, i, j] is C[idx[b,i], idx[b,j]].
C1_DoubleIndexing ==
    (/\ call.op = "task_covar_matrix"
     /\ locals.covar_matrix # NoTensor
     /\ IsSymmetric(locals.covar_matrix)
     /\ AllInRange(self, call.arg))
    => /\ ret.exc = ""
       /\ ret.out.shape = BatchShape(call.arg) \o <<NumPoints(call.arg), NumPoints(call.arg)>>
       /\ \A t \in Indices(BatchShape(call.arg) \o <<NumPoints(call.arg), NumPoints(call.arg)>>) :
             ret.out.at[t] =
                 locals.covar_matrix.at[<<IdxAt(call.arg, Lead(t), t[Len(t) - 1]),
                                          IdxAt(call.arg, Lead(t), t[Len(t)])>>]

\* a batch of two slices with different indices, on a covariance whose
\* off-diagonal entries differ
C1_Witness ==
    /\ call.op = "task_covar_matrix"
    /\ call.arg.shape = <<2, 1, 2, 1>>
    /\ AllInRange(self, call.arg)
    /\ call.arg.at[<<0, 0, 0, 0>>] # call.arg.at[<<0, 0, 1, 0>>]
    /\ call.arg.at[<<0, 0, 1, 0>>] # call.arg.at[<<1, 0, 1, 0>>]
    /\ ret.exc = ""
    /\ ret.out.at[<<0, 0, 0, 1>>] # ret.out.at[<<1, 0, 0, 1>>]
    /\ ret.out.at[<<0, 0, 0, 1>>] # 0

\* C6: with an entry of the task index tensor outside 0..num_contexts-1,
\* task_covar_matrix raises a bounds error and returns no matrix.
C6_OutOfRangeRaises ==
    (/\ call.op = "task_covar_matrix"
     /\ locals.covar_matrix # NoTensor
     /\ ~AllInRange(self, call.arg))
    => /\ ret.exc \in {"IndexError", "RuntimeError"}
       /\ ret.out = NoTensor

\* a negative index, which the row selection accepts and the gather refuses
C6_Witness ==
    /\ call.op = "task_covar_matrix"
    /\ call.arg.shape = <<2, 2, 1>>
    /\ \E t \in DOMAIN call.arg.at : call.arg.at[t] = -1
    /\ \A t \in DOMAIN call.arg.at : call.arg.at[t] < NumContexts(self)
    /\ ret.exc = "RuntimeError"

\* C9 as claimed: the index tensor of the gather has the shape
\* (..., num_contexts, n) of the transposed row selection.
C9_ExpandedToContexts ==
    (call.op = "task_covar_matrix" /\ ret.exc = "")
    => locals.expanded_idx.shape =
           BatchShape(call.arg) \o <<NumContexts(self), NumPoints(call.arg)>>

\* C9 as amended: the index tensor of the gather is task_idcs expanded to
\* the shape (..., n, n), its entry [b, i, j] being idx[b, i]: the indices
\* are repeated along the last axis.
C9_ExpandedToPoints ==
    (call.op = "task_covar_matrix" /\ locals.covar_matrix # NoTensor)
    => /\ locals.expanded_idx.shape =
              BatchShape(call.arg) \o <<NumPoints(call.arg), NumPoints(call.arg)>>
       /\ \A t \in DOMAIN locals.expanded_idx.at :
             locals.expanded_idx.at[t] = IdxAt(call.arg, Lead(t), t[Len(t) - 1])

\* n differs from num_contexts and the indices differ
C9_Witness ==
    /\ call.op = "task_covar_matrix"
    /\ call.arg.shape = <<2, 2, 1>>
    /\ NumContexts(self) = 3
    /\ call.arg.at[<<1, 0, 0>>] # call.arg.at[<<1, 1, 0>>]
    /\ locals.expanded_idx.shape = <<2, 2, 2>>
    /\ ret.exc = ""

\* C2: a model is constructed only with an embs_dim_list that has one entry
\* per categorical column; any other length fails the construction.
C2_MismatchFailsConstruction ==
    status = "ready" => Len(embs_dim_list) = NumCat(self)

\* C3: after construction all_tasks is ascending without repeats.
C3_AllTasksSortedDistinct ==
    status = "ready" =>
        \A i \in 1..(Len(self.all_tasks) - 1) : self.all_tasks[i] < self.all_tasks[i + 1]

\* C4: the kernel has one length-scale per column of the matrix that
\* _task_embeddings returns.
C4_LengthscalePerColumn ==
    (call.op = "_task_embeddings" /\ ret.exc = "")
    => /\ self.ard_num_dims = ret.out.shape[2]
       /\ Len(self.lengthscale) = ret.out.shape[2]

\* the columns before the block of categorical column i (1-based)
BlockOffset(m, i) == SumSeq([j \in 1..(i - 1) |-> m.emb_dims[j][2]])

NumEmbFeatures(m) ==
    IF m.context_emb_feature = None THEN 0 ELSE m.context_emb_feature[1].shape[2]

\* C5: _task_embeddings returns a matrix with num_contexts rows and as many
\* columns as the embedding dimensions of the k tables sum to, plus m; the
\* block of column i follows the blocks of the columns before it, its row r
\* is the table row of the category value of context r, and the continuous
\* features are the trailing m columns.
C5_EmbeddingLayout ==
    (call.op = "_task_embeddings" /\ ret.exc = "")
    => /\ ret.out.shape = <<NumContexts(self),
                            BlockOffset(self, NumCat(self) + 1) + NumEmbFeatures(self)>>
       /\ \A i \in 1..NumCat(self) : \A r \in 0..(NumContexts(self) - 1) :
             \A d \in 0..(self.emb_dims[i][2] - 1) :
                 ret.out.at[<<r, BlockOffset(self, i) + d>>] =
                     self.emb_layers[i].at[<<self.context_cat_feature.at[<<r, i - 1>>], d>>]
       /\ \A r \in 0..(NumContexts(self) - 1) : \A c \in 0..(NumEmbFeatures(self) - 1) :
             ret.out.at[<<r, BlockOffset(self, NumCat(self) + 1) + c>>] =
                 self.context_emb_feature[1].at[<<r, c>>]

\* two tables of the dimensions 2 and 1, continuous features, three contexts
C5_Witness ==
    /\ call.op = "_task_embeddings"
    /\ ret.exc = ""
    /\ NumContexts(self) = 3
    /\ self.emb_dims = <<<<3, 2>>, <<2, 1>>>>
    /\ NumEmbFeatures(self) = 1
    /\ ret.out.shape = <<3, 4>>
    /\ ret.out.at[<<0, 2>>] # ret.out.at[<<1, 2>>]
    /\ locals.renormed

\* C7: forward applies the input transform exactly when the model is in
\* training mode, which it leaves as it is; the split, the base covariance,
\* the task covariance and their product are taken on the resulting batch.
C7_TransformIffTraining ==
    call.op = "forward"
    => /\ locals.transformed = self.training
       /\ locals.x = IF self.training THEN TransformInputs(call.arg) ELSE call.arg
       /\ ret.exc = "" =>
             /\ ret.out.shape = <<locals.x.shape[1], locals.x.shape[1]>>
             /\ \A i, j \in 0..(locals.x.shape[1] - 1) :
                   ret.out.at[<<i, j>>] =
                       <<(locals.x.at[<<i, 0>>] - locals.x.at[<<j, 0>>])
                             * (locals.x.at[<<i, 0>>] - locals.x.at[<<j, 0>>]),
                         locals.covar_matrix.at[<<locals.x.at[<<i, 1>>], locals.x.at[<<j, 1>>]>>]>>

\* a forward pass in evaluation mode on two different rows of two contexts
C7_Witness ==
    /\ call.op = "forward"
    /\ ~self.training
    /\ ~locals.transformed
    /\ ret.exc = ""
    /\ call.arg.at[<<0, 0>>] # call.arg.at[<<1, 0>>]
    /\ call.arg.at[<<0, 1>>] # call.arg.at[<<1, 1>>]
    /\ ret.out.at[<<0, 1>>][2] # 0

ReadOps == {"_task_embeddings", "_eval_context_covar", "task_covar_matrix", "forward"}

TableRow(W, r) == [d \in 0..(W.shape[2] - 1) |-> W.at[<<r, d>>]]

\* C8 as claimed: a call of _task_embeddings, _eval_context_covar,
\* task_covar_matrix or forward leaves every embedding table as it was.
C8_TablesUntouched ==
    [][call'.op \in ReadOps => self'.emb_layers = self.emb_layers]_vars

\* C8 as amended: such a call changes nothing of the model but rows of the
\* embedding tables, and a row only if it is looked up and its norm exceeds
\* the limit 1.0, to a row within the limit; a row within the limit and a
\* row that is not looked up keep their values.
C8_TablesOnlyRenormed ==
    [][call'.op \in ReadOps =>
        /\ [self' EXCEPT !.emb_layers = self.emb_layers] = self
        /\ Len(self'.emb_layers) = Len(self.emb_layers)
        /\ \A i \in 1..Len(self.emb_layers) :
              /\ self'.emb_layers[i].shape = self.emb_layers[i].shape
              /\ \A r \in 0..(self.emb_layers[i].shape[1] - 1) :
                    /\ RowNorm2(self.emb_layers[i], r) <= Unit * Unit
                          => TableRow(self'.emb_layers[i], r) = TableRow(self.emb_layers[i], r)
                    /\ TableRow(self'.emb_layers[i], r) # TableRow(self.emb_layers[i], r)
                          => /\ r \in Looked(self, i)
                             /\ RowNorm2(self'.emb_layers[i], r) <= Unit * Unit
                             /\ RowNorm2(self'.emb_layers[i], r) > 0]_vars

\* a forward pass whose lookup rescaled a row
C8_Witness ==
    /\ call.op = "forward"
    /\ locals.renormed
    /\ ret.exc = ""
    /\ \E i \in 1..Len(self.emb_layers) : \E r \in 0..(self.emb_layers[i].shape[1] - 1) :
          RowNorm2(self.emb_layers[i], r) = Unit * Unit

\* C10: every category value that _task_embeddings looks up in a column's
\* table is one of the table's rows 0..cardinality-1.
C10_LookupsInTable ==
    status = "ready" =>
        \A i \in 1..NumCat(self) : Looked(self, i) \subseteq 0..(self.emb_dims[i][1] - 1)

=============================================================================
